---- MODULE Spec2Model ----
(***************************************************************************)
(* The file-transfer Client of sendata (src/unnamed/part_000): a wrapper   *)
(* around one WebTorrent client and one socket.io socket.                  *)
(*                                                                         *)
(* JavaScript runs every handler to completion, so each public method and  *)
(* each event handler of the class is one atomic action.  The WebTorrent   *)
(* client and its torrents are the environment; they are modelled by the   *)
(* contract the class relies on:                                           *)
(*   - client.torrents lists the torrents that are not destroyed, in the   *)
(*     order they were added; a destroyed torrent emits no further event;  *)
(*   - a torrent's fatal error destroys that torrent and is emitted on     *)
(*     the torrent if it has an "error" listener, on the client otherwise; *)
(*   - a client's fatal error destroys the client and all its torrents;    *)
(*   - torrent.files is empty until the metadata is known; a new torrent   *)
(*     selects all its files once the metadata is known;                   *)
(*   - file.select()/file.deselect() select/deselect that one file.        *)
(* window.setInterval timers belong to the page, not to WebTorrent: only   *)
(* clearInterval stops them.                                               *)
(***************************************************************************)
EXTENDS Integers, Sequences, FiniteSets, TLC

\* Sessions (torrents) ever started on one Client.
MaxTorrents == 2
\* Files over all the sessions of one Client.
MaxFiles == 2
\* file.progress and torrent.progress are numbers between 0 and 1; a file is
\* one piece, so its counter is 0 or Full
Full == 1

VARIABLES
    torrents,         \* every torrent ever added to this.client, in order of creation
    clientDestroyed,  \* this.client.destroyed
    fileNames,        \* this.fileNames
    progressListeners,\* number of socket "progressUpdate" listeners
    doneListeners,    \* socket "torrentDone" listeners: the torrent each closes over
    step              \* the handler that ran last and what it emitted

vars == <<torrents, clientDestroyed, fileNames, progressListeners,
          doneListeners, step>>

Undefined == <<-1>>

Bools == {TRUE, FALSE}

T == IF torrents = <<>> THEN {} ELSE 1..Len(torrents)

Sat(n) == IF n >= 2 THEN 2 ELSE n

RECURSIVE SumSeq(_)
SumSeq(s) == IF s = <<>> THEN 0 ELSE Head(s) + SumSeq(Tail(s))

Zeros(n) == [i \in 1..n |-> 0]

TotalFiles == SumSeq([t \in 1..Len(torrents) |-> torrents[t].nfTrue])

(* ---------------- notifications and messages ---------------- *)

\* this.emit(ev, ...) to the local observer
Emit(ev, t) == <<"local", ev, t, -1, <<>>>>
\* this.socket.emit(ev, ...) on the signaling link
SocketEmit(ev, t) == <<"link", ev, t, -1, <<>>>>

NoStep == [op |-> "init", t |-> 0, out |-> <<>>, dirs |-> <<>>,
           threw |-> FALSE, twice |-> FALSE]

Did(op, t, out) == [NoStep EXCEPT !.op = op, !.t = t, !.out = out]

\* an event of the handle for which no listener of the Client does anything
Quiet == Did("none", 0, <<>>)

\* how many times a handler emitted ev on channel ch
Count(out, ch, ev) ==
    Cardinality({k \in 1..Len(out) : out[k][1] = ch /\ out[k][2] = ev})

(* ---------------- the WebTorrent handle ---------------- *)

\* this.client.torrents: the torrents not yet destroyed, oldest first
ClientTorrents == SelectSeq([t \in 1..Len(torrents) |-> t],
                            LAMBDA t : ~torrents[t].destroyed)

\* torrent.files.length
FilesLength(t) == Len(torrents[t].sel)

\* whether file i of torrent t is selected for download
Selected(t, i) == torrents[t].sel[i]

\* torrent.progress, as a numerator over FilesLength(t) * Full
Progress(t) == SumSeq(torrents[t].fprog)

\* the handle after torrent.destroy() / a fatal error: it leaves
\* client.torrents and releases its files
Destroyed(r) == [r EXCEPT !.destroyed = TRUE, !.sel = <<>>,
                          !.fprog = <<>>, !.blob = <<>>]

NewTorrent(role, nf) ==
    [role |-> role, nfTrue |-> nf, phase |-> "added", destroyed |-> FALSE,
     sel |-> <<>>,
     fprog |-> <<>>, progressFiles |-> Undefined, timer |-> FALSE,
     errHandlers |-> FALSE, destroyCb |-> FALSE, blob |-> <<>>,
     afterDoneLocal |-> 0, afterDoneLink |-> 0]

Init ==
    /\ torrents = <<>>
    /\ clientDestroyed = FALSE
    /\ fileNames = Undefined
    /\ progressListeners = 0
    /\ doneListeners = <<>>
    /\ step = NoStep

(* ---------------- session start ---------------- *)

\* this.client.seed(files, ...) / this.client.add(magnetURI, ...): a new handle,
\* or an exception when the client is already destroyed
ClientAdd(op, role, nf) ==
    IF clientDestroyed
    THEN /\ step' = [Did(op, 0, <<>>) EXCEPT !.threw = TRUE]
         /\ UNCHANGED torrents
    ELSE /\ Len(torrents) < MaxTorrents
         /\ TotalFiles + nf <= MaxFiles
         /\ torrents' = Append(torrents, NewTorrent(role, nf))
         /\ step' = Did(op, Len(torrents) + 1, <<>>)

\* Client.sendFiles: the files are given by their number
sendFiles(nf) ==
    /\ ClientAdd("sendFiles", "sender", nf)
    /\ UNCHANGED <<clientDestroyed, fileNames, progressListeners, doneListeners>>

\* Client.addTorrent: the magnet URI is given by the number of files of the
\* torrent it names
addTorrent(nf) ==
    /\ ClientAdd("addTorrent", "receiver", nf)
    /\ UNCHANGED <<clientDestroyed, fileNames, progressListeners, doneListeners>>

\* the socket's "addTorrent" listener
SocketAddTorrent(nf) == addTorrent(nf)

(* ---------------- handle events ---------------- *)

\* torrent.files[i].name: the i-th file of every torrent bears the i-th name
Names == <<"a.txt", "b.bin", "c.dat", "d.img", "e.iso">>

FileName(t, i) == Names[i]

\* a setFileNames that fills the array from its end
setFileNamesReversed(t, n) == [i \in 1..n |-> FileName(t, n + 1 - i)]

\* Client.setFileNames
setFileNames(t, n) == [i \in 1..n |-> FileName(t, i)]

\* the torrent's "metadata" event: the handle learns its files and selects them
\* all; a receiver's "metadata" listener resets progressFiles and sets fileNames
Metadata(t) ==
    /\ t \in T
    /\ torrents[t].phase = "added"
    /\ ~torrents[t].destroyed
    /\ LET r == torrents[t]
           n == r.nfTrue
           h == [r EXCEPT !.phase = "metadata",
                          !.sel = [i \in 1..n |-> TRUE],
                          !.fprog = IF r.role = "sender"
                                    THEN [i \in 1..n |-> Full] ELSE Zeros(n),
                          !.blob = [i \in 1..n |-> "none"]]
       IN IF r.role = "receiver"
          THEN /\ torrents' = [torrents EXCEPT ![t] =
                                  [h EXCEPT !.progressFiles = Zeros(n)]]
               /\ fileNames' = setFileNames(t, n)
          ELSE /\ torrents' = [torrents EXCEPT ![t] = h]
               /\ UNCHANGED fileNames
    /\ step' = IF torrents[t].role = "receiver" THEN Did("metadata", t, <<>>)
               ELSE Quiet
    /\ UNCHANGED <<clientDestroyed, progressListeners, doneListeners>>

\* the callback of this.client.seed
SeedCallback(t) ==
    /\ t \in T
    /\ torrents[t].role = "sender"
    /\ torrents[t].phase = "metadata"
    /\ ~torrents[t].destroyed
    /\ torrents' = [torrents EXCEPT ![t].phase = "seeding",
                                    ![t].errHandlers = TRUE]
    /\ fileNames' = setFileNames(t, FilesLength(t))
    /\ progressListeners' = progressListeners + 1
    /\ doneListeners' = Append(doneListeners, t)
    /\ step' = Did("seed", t, <<Emit("seeding", t), SocketEmit("fileReady", t)>>)
    /\ UNCHANGED clientDestroyed

\* the torrent's "upload" listener
Upload(t) ==
    /\ t \in T
    /\ torrents[t].phase = "seeding"
    /\ ~torrents[t].destroyed
    /\ step' = Did("upload", t, <<Emit("upload", t)>>)
    /\ UNCHANGED <<torrents, clientDestroyed, fileNames, progressListeners,
                   doneListeners>>

\* the torrent's "warning" listener: logs only
Warning(t) ==
    /\ t \in T
    /\ torrents[t].errHandlers
    /\ ~torrents[t].destroyed
    /\ step' = Quiet
    /\ UNCHANGED <<torrents, clientDestroyed, fileNames, progressListeners,
                   doneListeners>>

\* listeners that send the message back over the socket
RelayEchoed(n, info) ==
    [k \in 1..n |-> <<"link", "progressUpdate", 0, info, <<>>>>]

\* listeners that forward a payload of their own making instead of the message
RelayRebuilt(n, info) ==
    [k \in 1..n |-> <<"local", "progressUpdate", 0, 10, <<>>>>]

\* the socket's "progressUpdate" listeners, one per seed callback that ran
Relay(n, info) ==
    [k \in 1..n |-> <<"local", "progressUpdate", 0, info, <<>>>>]

Infos == {10, 11}

SocketProgressUpdate(info) ==
    /\ step' = Did("socket.progressUpdate", 0, Relay(progressListeners, info))
    /\ UNCHANGED <<torrents, clientDestroyed, fileNames, progressListeners,
                   doneListeners>>

\* the socket's "torrentDone" listeners: torrent.destroy(callback) on the torrent
\* each closes over; destroying a destroyed torrent does nothing
TorrentDoneTargets ==
    {t \in T : (\E k \in 1..Len(doneListeners) : doneListeners[k] = t)
               /\ ~torrents[t].destroyed}

SocketTorrentDone ==
    /\ torrents' = [t \in 1..Len(torrents) |->
                      IF t \in TorrentDoneTargets
                      THEN [Destroyed(torrents[t]) EXCEPT !.destroyCb = TRUE]
                      ELSE torrents[t]]
    /\ step' = Did("socket.torrentDone", 0, <<>>)
    /\ UNCHANGED <<clientDestroyed, fileNames, progressListeners,
                   doneListeners>>

\* the callback given to torrent.destroy by a "torrentDone" listener
DestroyCallback(t) ==
    /\ t \in T
    /\ torrents[t].destroyCb
    /\ torrents' = [torrents EXCEPT ![t].destroyCb = FALSE]
    /\ step' = Did("destroyCallback", t, <<Emit("torrentDestroyed", t)>>)
    /\ UNCHANGED <<clientDestroyed, fileNames, progressListeners,
                   doneListeners>>

(* ---------------- the receiver's progress reporting ---------------- *)

\* sendProgress (closure of the "ready" listener): the message it sends
sendProgress(t) ==
    <<"link", "progressUpdate", t, Progress(t), torrents[t].progressFiles>>

\* an onDownload that refills progressFiles from scratch: an entry with no
\* file behind it falls back to 0
onDownloadFilesRefilled(pf, files) ==
    LET start == IF pf = Undefined THEN Zeros(Len(files)) ELSE pf
    IN [i \in 1..Len(start) |-> IF i <= Len(files) THEN files[i] ELSE 0]

\* onDownload: the value it leaves in progressFiles.  files is torrent.files
\* as the per-file counters; every entry is overwritten by file.progress
onDownloadFiles(pf, files) ==
    LET start == IF pf = Undefined THEN Zeros(Len(files)) ELSE pf
    IN [i \in 1..Len(start) |-> IF i <= Len(files) THEN files[i] ELSE start[i]]

\* onDownload: the notification it emits
onDownload(t, pf) == <<"local", "download", t, Progress(t), pf>>

\* the callback of this.client.add followed by the torrent's "ready" listener:
\* getBlobURL is requested for every file and the interval is started
Ready(t) ==
    /\ t \in T
    /\ torrents[t].role = "receiver"
    /\ torrents[t].phase = "metadata"
    /\ ~torrents[t].destroyed
    /\ torrents' = [torrents EXCEPT
           ![t].phase = "ready",
           ![t].blob = [i \in 1..FilesLength(t) |-> "pending"],
           ![t].timer = TRUE]
    /\ step' = Did("ready", t, <<Emit("downloading", t)>>)
    /\ UNCHANGED <<clientDestroyed, fileNames, progressListeners, doneListeners>>

\* the handle receives data of file i (no listener of the Client runs)
Piece(t, i) ==
    /\ t \in T
    /\ torrents[t].role = "receiver"
    /\ torrents[t].phase \in {"ready", "done"}
    /\ ~torrents[t].destroyed
    /\ i \in 1..FilesLength(t)
    /\ torrents[t].fprog[i] < Full
    /\ torrents' = [torrents EXCEPT ![t].fprog[i] = @ + 1]
    /\ step' = Quiet
    /\ UNCHANGED <<clientDestroyed, fileNames, progressListeners, doneListeners>>

\* a getBlobURL callback that reports every file under the first index
BlobOutFirstIndex(t, i, res) ==
    IF res = "url" THEN <<<<"local", "fileDownloadComplete", t, 1, <<>>>>>>
    ELSE <<>>

\* a getBlobURL callback that reports a failure to the observer
BlobOutReportsError(t, i, res) ==
    IF res = "url" THEN <<<<"local", "fileDownloadComplete", t, i, <<>>>>>>
    ELSE <<Emit("error", t)>>

\* the callback of file.getBlobURL for file i, once the file is complete
BlobOut(t, i, res) ==
    IF res = "url" THEN <<<<"local", "fileDownloadComplete", t, i, <<>>>>>>
    ELSE <<>>

BlobResults == {"err", "undefined", "url"}

BlobURL(t, i, res) ==
    /\ t \in T
    /\ ~torrents[t].destroyed
    /\ i \in 1..Len(torrents[t].blob)
    /\ torrents[t].blob[i] = "pending"
    /\ torrents[t].fprog[i] = Full
    /\ torrents' = [torrents EXCEPT ![t].blob[i] = "called"]
    /\ step' = Did("getBlobURL", t, BlobOut(t, i, res))
    /\ UNCHANGED <<clientDestroyed, fileNames, progressListeners, doneListeners>>

\* the interval callback: sendProgress() then onDownload().  It keeps running
\* on a destroyed torrent, whose files are gone
Tick(t) ==
    /\ t \in T
    /\ torrents[t].timer
    /\ LET r == torrents[t]
           pf == onDownloadFiles(r.progressFiles, r.fprog)
           out == <<sendProgress(t), onDownload(t, pf)>>
           done == r.phase = "done"
       IN /\ torrents' = [torrents EXCEPT
                 ![t].progressFiles = pf,
                 ![t].afterDoneLink =
                     IF done THEN Sat(@ + Count(out, "link", "progressUpdate")) ELSE @,
                 ![t].afterDoneLocal =
                     IF done THEN Sat(@ + Count(out, "local", "download")) ELSE @]
          /\ step' = Did("tick", t, out)
    /\ UNCHANGED <<clientDestroyed, fileNames, progressListeners, doneListeners>>

\* a "done" listener that forgets clearInterval: the interval stays as it was
ClearIntervalForgotten(timer) == timer

\* clearInterval(downloadInfoInterval) in the "done" listener
ClearInterval(timer) == FALSE

\* the handle is done when every selected file is complete
AllSelectedComplete(t) ==
    \A i \in 1..FilesLength(t) : Selected(t, i) => torrents[t].fprog[i] = Full

\* what the torrent's "done" listener emits, pf being progressFiles as its
\* call of onDownload leaves it
DoneOut(t, pf) ==
    <<SocketEmit("downloadComplete", t), Emit("downloadComplete", t),
      onDownload(t, pf),
      <<"link", "progressUpdate", t, Progress(t), pf>>>>

\* the torrent's "done" listener (registered by the "ready" listener)
Done(t) ==
    /\ t \in T
    /\ torrents[t].role = "receiver"
    /\ torrents[t].phase = "ready"
    /\ ~torrents[t].destroyed
    /\ AllSelectedComplete(t)
    /\ LET r == torrents[t]
           pf == onDownloadFiles(r.progressFiles, r.fprog)
           out == DoneOut(t, pf)
       IN /\ torrents' = [torrents EXCEPT
                 ![t].phase = "done",
                 ![t].timer = ClearInterval(r.timer),
                 ![t].progressFiles = pf,
                 ![t].afterDoneLocal = Sat(@ + Count(out, "local", "download")),
                 ![t].afterDoneLink = Sat(@ + Count(out, "link", "progressUpdate"))]
          /\ step' = Did("done", t, out)
    /\ UNCHANGED <<clientDestroyed, fileNames, progressListeners, doneListeners>>

(* ---------------- file selection ---------------- *)

\* the lengths of the vectors tried in a state: up to one more than the files
\* of this.client.torrents[0], and no more than MaxFiles
TriedLengths ==
    LET n == IF ClientTorrents = <<>> THEN 0 ELSE FilesLength(ClientTorrents[1])
    IN 0..(IF n < MaxFiles THEN n + 1 ELSE MaxFiles)

\* a length test that rejects only the vectors that are too short
LengthMismatchShortOnly(v, n) == Len(v) < n

\* the test of the vector's length in selectFiles
LengthMismatch(v, n) == Len(v) # n

\* torrent.deselect(0, torrent.pieces.length - 1, 0): drops the selection of
\* the whole torrent, with which every torrent starts
DeselectAll(r) == [r EXCEPT !.sel = [i \in 1..Len(r.sel) |-> FALSE]]

\* a loop that starts one file too late: the first file gets no directive
SelectLoopSkipsFirst(sel, v, i) ==
    [j \in 1..Len(sel) |-> IF j = 1 THEN sel[j] ELSE v[j]]

\* the loop of selectFiles over the files, from index i on: file.select() or
\* file.deselect() according to fileSelections[i]
RECURSIVE SelectLoop(_, _, _)
SelectLoop(sel, v, i) ==
    IF i > Len(sel) THEN sel
    ELSE SelectLoop([sel EXCEPT ![i] = v[i]], v, i + 1)

RECURSIVE LoopDirectives(_, _, _)
LoopDirectives(n, v, i) ==
    IF i > n THEN <<>>
    ELSE <<<<IF v[i] THEN "file.select" ELSE "file.deselect", i>>>>
         \o LoopDirectives(n, v, i + 1)

\* a selectFiles that does not clear the selection and treats a false entry
\* as "flip this file"
ApplySelectionFlips(r, v) ==
    IF Len(v) # Len(r.sel) THEN r
    ELSE [r EXCEPT !.sel = [i \in 1..Len(r.sel) |->
                               IF v[i] THEN TRUE ELSE ~r.sel[i]]]

\* the handle of torrent r after selectFiles(v)
ApplySelection(r, v) ==
    IF LengthMismatch(v, Len(r.sel)) THEN r
    ELSE LET cleared == DeselectAll(r)
         IN [cleared EXCEPT !.sel = SelectLoop(cleared.sel, v, 1)]

\* the directives selectFiles(v) issues to the handle of torrent r
SelectionDirectives(r, v) ==
    IF LengthMismatch(v, Len(r.sel)) THEN <<>>
    ELSE <<<<"torrent.deselect", 0>>>> \o LoopDirectives(Len(r.sel), v, 1)

\* Client.selectFiles: works on this.client.torrents[0]; with no torrent the
\* read of torrent.files throws
selectFiles(v) ==
    /\ IF ClientTorrents = <<>>
       THEN /\ step' = [Did("selectFiles", 0, <<>>) EXCEPT !.threw = TRUE]
            /\ UNCHANGED torrents
       ELSE LET t == ClientTorrents[1]
                r == torrents[t]
            IN /\ torrents' = [torrents EXCEPT ![t] = ApplySelection(r, v)]
               /\ step' = [Did("selectFiles", t, <<>>) EXCEPT
                      !.dirs = SelectionDirectives(r, v),
                      !.twice = /\ step.op = "selectFiles"
                                /\ step.t = t
                                /\ step.dirs = SelectionDirectives(r, v)
                                /\ ~LengthMismatch(v, Len(r.sel))]
    /\ UNCHANGED <<clientDestroyed, fileNames, progressListeners, doneListeners>>

(* ---------------- errors and teardown ---------------- *)

\* the client's "error" listener
OnClientError == <<Emit("error", 0), Emit("clientDestroyed", 0)>>

\* a torrent "error" listener that forgets the torrentDestroyed notification
OnTorrentErrorOnly(t) == <<Emit("error", t)>>

\* the torrent's "error" listener installed by setTorrentErrorHandlers
OnTorrentError(t) == <<Emit("error", t), Emit("torrentDestroyed", t)>>

\* every torrent of the client destroyed (client.destroy, or a fatal error)
AllDestroyed ==
    [t \in 1..Len(torrents) |->
        IF torrents[t].destroyed THEN torrents[t] ELSE Destroyed(torrents[t])]

\* a fatal error of the WebTorrent client
ClientError ==
    /\ ~clientDestroyed
    /\ clientDestroyed' = TRUE
    /\ torrents' = AllDestroyed
    /\ step' = Did("clientError", 0, OnClientError)
    /\ UNCHANGED <<fileNames, progressListeners, doneListeners>>

\* a fatal error of torrent t: handled by the torrent's "error" listener when
\* setTorrentErrorHandlers installed one, by the client's otherwise
TorrentError(t) ==
    /\ t \in T
    /\ ~torrents[t].destroyed
    /\ torrents' = [torrents EXCEPT ![t] = Destroyed(@)]
    /\ step' = Did("torrentError", t,
                   IF torrents[t].errHandlers THEN OnTorrentError(t)
                   ELSE OnClientError)
    /\ UNCHANGED <<clientDestroyed, fileNames, progressListeners, doneListeners>>

\* what Client.destroy emits to the local observer
DestroyOut == <<>>

\* Client.destroy: this.client.destroy(), which throws on a destroyed client
destroy ==
    /\ IF clientDestroyed
       THEN /\ step' = [Did("destroy", 0, <<>>) EXCEPT !.threw = TRUE]
            /\ UNCHANGED <<torrents, clientDestroyed>>
       ELSE /\ clientDestroyed' = TRUE
            /\ torrents' = AllDestroyed
            /\ step' = Did("destroy", 0, DestroyOut)
    /\ UNCHANGED <<fileNames, progressListeners, doneListeners>>

(* ---------------- the system ---------------- *)

Next ==
    \/ \E nf \in 1..MaxFiles : sendFiles(nf)
    \/ \E nf \in 1..MaxFiles : addTorrent(nf)
    \/ \E nf \in 1..MaxFiles : SocketAddTorrent(nf)
    \/ \E t \in T : Metadata(t)
    \/ \E t \in T : SeedCallback(t)
    \/ \E t \in T : Upload(t)
    \/ \E t \in T : Warning(t)
    \/ \E info \in Infos : SocketProgressUpdate(info)
    \/ SocketTorrentDone
    \/ \E t \in T : DestroyCallback(t)
    \/ \E t \in T : Ready(t)
    \/ \E t \in T : \E i \in 1..MaxFiles : Piece(t, i)
    \/ \E t \in T : \E i \in 1..MaxFiles : \E res \in BlobResults : BlobURL(t, i, res)
    \/ \E t \in T : Tick(t)
    \/ \E t \in T : Done(t)
    \/ \E n \in TriedLengths : \E v \in [1..n -> Bools] : selectFiles(v)
    \/ ClientError
    \/ \E t \in T : TorrentError(t)
    \/ destroy

Spec == Init /\ [][Next]_vars

\* The Client used as selectFiles expects it ("Only one torrent is being
\* used"): one session per Client.
OneSession == Len(torrents') <= 1

NextOne ==
    \/ \E nf \in 1..MaxFiles : sendFiles(nf) /\ OneSession
    \/ \E nf \in 1..MaxFiles : addTorrent(nf) /\ OneSession
    \/ \E nf \in 1..MaxFiles : SocketAddTorrent(nf) /\ OneSession
    \/ \E t \in T : Metadata(t)
    \/ \E t \in T : SeedCallback(t)
    \/ \E t \in T : Upload(t)
    \/ \E t \in T : Warning(t)
    \/ \E info \in Infos : SocketProgressUpdate(info)
    \/ SocketTorrentDone
    \/ \E t \in T : DestroyCallback(t)
    \/ \E t \in T : Ready(t)
    \/ \E t \in T : \E i \in 1..MaxFiles : Piece(t, i)
    \/ \E t \in T : \E i \in 1..MaxFiles : \E res \in BlobResults : BlobURL(t, i, res)
    \/ \E t \in T : Tick(t)
    \/ \E t \in T : Done(t)
    \/ \E n \in TriedLengths : \E v \in [1..n -> Bools] : selectFiles(v)
    \/ ClientError
    \/ \E t \in T : TorrentError(t)
    \/ destroy

SpecOne == Init /\ [][NextOne]_vars

(* ======================= the claims ======================= *)

\* the handler that ran last handled a fatal error of the swarm layer
FatalStep == step.op \in {"torrentError", "clientError"}

\* the fatal error handled last was fatal to torrent t
FatalFor(t) ==
    \/ step.op = "torrentError" /\ step.t = t
    \/ step.op = "clientError"

Terminal == {"error", "torrentDestroyed", "clientDestroyed", "sessionDestroyed"}

\* the notifications of a handler that tell the observer a handle is gone
DestroyedCount(out) ==
    Count(out, "local", "torrentDestroyed") + Count(out, "local", "clientDestroyed")
    + Count(out, "local", "sessionDestroyed")

\* the progress snapshots a handler published, on either channel
Snapshots(out) == Count(out, "local", "download") + Count(out, "link", "progressUpdate")

\* the selected/deselected state of every file of every torrent
SelView == [t \in 1..Len(torrents) |-> torrents[t].sel]

\* C1: the Client has at most one handle that is not destroyed, whatever
\* sequence of sendFiles calls and addTorrent calls or messages it has served.
C1_SingleSession == Len(ClientTorrents) <= 1

\* C2: once destroy has been called, no progress timer is active, and the call
\* that tore the client down emitted exactly one destroyed notification.
C2_DestroyNotifiesOnceAndStopsTimer ==
    step.op = "destroy" =>
        /\ \A t \in T : ~torrents[t].timer
        /\ ~step.threw => DestroyedCount(step.out) = 1

\* C3: once a fatal error has been handled for a session whose progress timer
\* is running, the timer publishes no snapshot, neither as a download
\* notification nor as a progressUpdate message.
C3_NoSnapshotAfterFatalError ==
    [][\A t \in T :
          (FatalFor(t) /\ torrents[t].timer)
              => ~(step'.op = "tick" /\ step'.t = t /\ Snapshots(step'.out) > 0)]_vars

\* C4: the handler of a fatal error, of a torrent of either role in any
\* lifecycle state or of the client, emits exactly one error notification and
\* exactly one torrentDestroyed or clientDestroyed notification.
C4_FatalErrorNotifiedOnce ==
    FatalStep =>
        /\ Count(step.out, "local", "error") = 1
        /\ DestroyedCount(step.out) = 1

\* C4 witness: a fatal error of a receiver's torrent, which has no "error"
\* listener of its own, while its progress timer runs.
C4_Witness ==
    /\ step.op = "torrentError"
    /\ torrents[step.t].role = "receiver"
    /\ torrents[step.t].timer

\* C5: right after a fatal error was handled for a session, a handler acting on
\* that session issues no directive to the handle and emits nothing but
\* terminal notifications.
C5_NothingAfterErrored ==
    [][\A t \in T :
          (FatalFor(t) /\ step'.t = t /\ ~(step'.op \in {"torrentError", "clientError"}))
              => /\ step'.dirs = <<>>
                 /\ \A k \in 1..Len(step'.out) :
                        step'.out[k][1] = "local" /\ step'.out[k][2] \in Terminal]_vars

\* C6: when a torrentDone message has been handled, every handle is torn
\* down and no progress timer runs, whatever the role and the lifecycle state.
C6_TerminateTearsDown ==
    step.op = "socket.torrentDone" =>
        \A t \in T : torrents[t].destroyed /\ ~torrents[t].timer

\* C7: selectFiles with a vector whose length differs from the number of files
\* of the torrent it works on issues no directive and leaves the
\* selected/deselected state of every file unchanged.
C7_MismatchChangesNothing ==
    [][(step'.op = "selectFiles" /\ ClientTorrents # <<>>) =>
          \A n \in 0..MaxFiles : \A v \in [1..n -> Bools] :
              (n # FilesLength(ClientTorrents[1]) /\ selectFiles(v))
                  => step'.dirs = <<>> /\ SelView' = SelView]_vars

\* C7 witness: a vector of the wrong length was given for a torrent whose
\* files are known and partly deselected.
C7_Witness ==
    /\ step.op = "selectFiles"
    /\ step.t # 0
    /\ step.dirs = <<>>
    /\ \E i \in 1..FilesLength(step.t) : ~Selected(step.t, i)
    /\ \E i \in 1..FilesLength(step.t) : Selected(step.t, i)

\* C8: selectFiles with a vector of the right length first clears the selection
\* and then issues one directive per file, in order, after which file i is
\* selected exactly if vector[i] is true, whatever was selected before.
C8_ValidVectorApplied ==
    [][(step'.op = "selectFiles" /\ ClientTorrents # <<>>) =>
          LET t == ClientTorrents[1]
              n == FilesLength(t)
          IN \A v \in [1..n -> Bools] :
                selectFiles(v) =>
                    /\ Len(step'.dirs) = n + 1
                    /\ step'.dirs[1] = <<"torrent.deselect", 0>>
                    /\ \A i \in 1..n :
                          /\ step'.dirs[i + 1] =
                               <<IF v[i] THEN "file.select" ELSE "file.deselect", i>>
                          /\ torrents'[t].sel[i] = v[i]]_vars

\* C8 witness: a vector selecting one file and deselecting another has been
\* applied.
C8_Witness ==
    /\ step.op = "selectFiles"
    /\ Len(step.dirs) >= 3
    /\ \E i \in 1..FilesLength(step.t) : ~Selected(step.t, i)
    /\ \E i \in 1..FilesLength(step.t) : Selected(step.t, i)

\* C9: selectFiles(v) called right after selectFiles(v), for a vector of the
\* right length, leaves the selected/deselected state of every file as the
\* first call left it.
C9_SelectionIdempotent ==
    [][(step'.op = "selectFiles" /\ step'.twice) => SelView' = SelView]_vars

\* C9 witness: the same vector, deselecting a file, has been applied twice in
\* a row.
C9_Witness ==
    /\ step.op = "selectFiles"
    /\ step.twice
    /\ \E i \in 1..FilesLength(step.t) : ~Selected(step.t, i)

\* C10: once the done event of a torrent has been handled, its progress timer
\* is stopped, and exactly one snapshot has been published to the local
\* observer and exactly one to the signaling link since the event, that is the
\* ones of the done listener itself.
C10_OneFinalSample ==
    \A t \in T :
        torrents[t].phase = "done" =>
            /\ ~torrents[t].timer
            /\ torrents[t].afterDoneLocal = 1
            /\ torrents[t].afterDoneLink = 1

\* C10 witness: a torrent is done and other handlers have run since.
C10_Witness ==
    \E t \in T :
        /\ torrents[t].phase = "done"
        /\ step.op = "getBlobURL"
        /\ step.t = t

\* the snapshots of a handler's output, as <<channel, progress, progressFiles>>
SnapshotsOf(out) ==
    SelectSeq(out, LAMBDA m : \/ (m[1] = "local" /\ m[2] = "download")
                              \/ (m[1] = "link" /\ m[2] = "progressUpdate"))

\* C11: the snapshots the done listener publishes carry an overall fraction of
\* exactly 1 (torrent.progress equal to its full scale) and a fraction of
\* exactly 1 for every selected file, whatever selection was applied before.
C11_FinalSnapshotComplete ==
    step.op = "done" =>
        LET t == step.t
            snaps == SnapshotsOf(step.out)
        IN /\ snaps # <<>>
           /\ \A k \in 1..Len(snaps) :
                 /\ snaps[k][4] = FilesLength(t) * Full
                 /\ \A i \in 1..FilesLength(t) :
                       Selected(t, i) => snaps[k][5][i] = Full

\* the handler that ran last published snapshots of torrent t
Publishes(s, t) == s.op \in {"tick", "done"} /\ s.t = t

\* C12: within one session progressFiles is the high-water mark of what has
\* been published: it never decreases, every snapshot published on either
\* channel carries for each file at least the value it held before the
\* handler ran and at most the value it holds afterwards.  Hence the per-file
\* fractions never decrease along the snapshots of either channel.
C12_PerFileMonotonic ==
    [][\A t \in T :
          LET before == torrents[t].progressFiles
              after == torrents'[t].progressFiles
          IN before # Undefined =>
                /\ Len(after) = Len(before)
                /\ \A i \in 1..Len(before) : after[i] >= before[i]
                /\ Publishes(step', t) =>
                      \A k \in 1..Len(SnapshotsOf(step'.out)) :
                         LET pf == SnapshotsOf(step'.out)[k][5]
                         IN /\ Len(pf) = Len(before)
                            /\ \A i \in 1..Len(before) :
                                  pf[i] >= before[i] /\ after[i] >= pf[i]]_vars

\* C12 witness: a tick whose two snapshots differ, the later one carrying a
\* higher fraction for a file than the earlier one.
C12_Witness ==
    /\ step.op = "tick"
    /\ Len(step.out) = 2
    /\ \E i \in 1..Len(step.out[2][5]) : step.out[1][5][i] < step.out[2][5][i]

\* what a session is, apart from the getBlobURL callbacks still to come
SessionView(r) == <<r.phase, r.destroyed, r.timer, r.sel, r.fprog,
                    r.progressFiles, r.errHandlers>>

\* C13: a getBlobURL callback that gets an error or an undefined url emits
\* nothing (no fileDownloadComplete, no error), leaves the session and the
\* client as they were, and leaves the callbacks of the other files pending.
C13_BlobFailureSkipped ==
    [][step'.op = "getBlobURL" =>
          \A t \in T : \A i \in 1..MaxFiles : \A res \in {"err", "undefined"} :
              BlobURL(t, i, res) =>
                  /\ Count(step'.out, "local", "fileDownloadComplete") = 0
                  /\ Count(step'.out, "local", "error") = 0
                  /\ step'.out = <<>>
                  /\ SessionView(torrents'[t]) = SessionView(torrents[t])
                  /\ clientDestroyed' = clientDestroyed
                  /\ \A j \in 1..Len(torrents[t].blob) :
                        j # i => torrents'[t].blob[j] = torrents[t].blob[j]]_vars

\* C13 witness: a getBlobURL callback has failed while the callback of
\* another file of the torrent is still to come.
C13_Witness ==
    /\ step.op = "getBlobURL"
    /\ step.out = <<>>
    /\ \E j \in 1..Len(torrents[step.t].blob) : torrents[step.t].blob[j] = "pending"

\* the Client acts as a sender: a session of sendFiles has been announced to
\* the counterpart (its seed callback ran), which may be gone since
SenderRole == \E t \in T : torrents[t].role = "sender" /\ torrents[t].errHandlers

OnlySender == \A t \in T : torrents[t].role = "sender"

\* C15: a Client whose sessions were all started by sendFiles sends no
\* progressUpdate message over the socket, whatever handler ran.
C15_SenderSendsNoProgress ==
    OnlySender => Count(step.out, "link", "progressUpdate") = 0

\* C15 witness: a Client with sender sessions only has relayed a
\* progressUpdate message while one of its sessions is seeding.
C15_Witness ==
    /\ OnlySender
    /\ step.op = "socket.progressUpdate"
    /\ Len(step.out) >= 1
    /\ \E t \in T : torrents[t].phase = "seeding" /\ ~torrents[t].destroyed

\* C16: when the metadata listener of a torrent has run, fileNames has one
\* entry per file of the handle, entry i being the name of the handle's i-th
\* file, and progressFiles has one entry per file, each 0.
C16_MetadataFillsDescriptors ==
    step.op = "metadata" =>
        LET t == step.t
            n == FilesLength(t)
        IN /\ n = torrents[t].nfTrue
           /\ Len(fileNames) = n
           /\ \A i \in 1..n : fileNames[i] = FileName(t, i)
           /\ Len(torrents[t].progressFiles) = n
           /\ \A i \in 1..n : torrents[t].progressFiles[i] = 0
           /\ \A i \in 1..n : Selected(t, i)

\* C16 witness: the metadata of a torrent of the two files a.txt and b.bin
\* has arrived.
C16_Witness ==
    /\ step.op = "metadata"
    /\ fileNames = <<"a.txt", "b.bin">>
    /\ torrents[step.t].progressFiles = <<0, 0>>

\* C17: the two snapshots of an interval tick of a live torrent, the one sent
\* over the socket and the one emitted to the local observer, carry the same
\* per-file fractions, which are the handle's per-file counters at that tick.
C17_TickSnapshotsAgree ==
    (step.op = "tick" /\ ~torrents[step.t].destroyed) =>
        LET snaps == SnapshotsOf(step.out)
        IN /\ Len(snaps) = 2
           /\ snaps[1][1] = "link" /\ snaps[2][1] = "local"
           /\ snaps[1][5] = snaps[2][5]
           /\ snaps[2][5] = torrents[step.t].fprog

\* the selectFiles call that ran last came before any file list was known:
\* no session had been started, or the metadata of its torrent had not arrived
BeforeFileList ==
    \/ torrents = <<>>
    \/ step.t # 0 /\ torrents[step.t].phase = "added"

\* C18: a selectFiles call made before the file list is known issues no
\* directive to the handle and does not throw, whatever the vector.
C18_EarlySelectRejected ==
    (step.op = "selectFiles" /\ BeforeFileList) =>
        step.dirs = <<>> /\ ~step.threw

\* C19: the getBlobURL callback of file i of a torrent runs on a pending
\* request and uses it up, for good; it emits at most one
\* fileDownloadComplete, which carries the torrent and the index i.  Hence at
\* most one fileDownloadComplete per file of a session.
C19_FileCompleteOncePerFile ==
    [][/\ \A t \in T : \A i \in 1..Len(torrents[t].blob) :
             torrents[t].blob[i] = "called" =>
                 \/ torrents'[t].blob = <<>>
                 \/ torrents'[t].blob[i] = "called"
       /\ Count(step'.out, "local", "fileDownloadComplete") > 0
             => step'.op = "getBlobURL"
       /\ step'.op = "getBlobURL" =>
             \A t \in T : \A i \in 1..MaxFiles : \A res \in BlobResults :
                 BlobURL(t, i, res) =>
                     /\ torrents[t].blob[i] = "pending"
                     /\ torrents'[t].blob[i] = "called"
                     /\ Count(step'.out, "local", "fileDownloadComplete") <= 1
                     /\ res = "url" => step'.out =
                            <<<<"local", "fileDownloadComplete", t, i, <<>>>>>>]_vars

\* C19 witness: the second file of a torrent has been notified as complete
\* while the first one has no data yet and the torrent is not done.
C19_Witness ==
    /\ step.op = "getBlobURL"
    /\ Count(step.out, "local", "fileDownloadComplete") = 1
    /\ step.out[1][4] = 2
    /\ torrents[step.t].phase = "ready"
    /\ torrents[step.t].fprog[1] = 0

\* the torrents for which the handler that runs now schedules the callback of
\* torrent.destroy, each of which will emit one torrentDestroyed
ScheduledDestroyCallbacks ==
    {t \in T : ~torrents[t].destroyCb /\ torrents'[t].destroyCb}

\* C20: whatever number of sendFiles sessions the Client has announced, one
\* progressUpdate message makes it emit exactly one progressUpdate
\* notification, and one torrentDone message schedules at most one
\* torrentDestroyed notification.
C20_ListenersDoNotAccumulate ==
    [][/\ (step'.op = "socket.progressUpdate" /\ SenderRole)
             => Len(step'.out) = 1
       /\ step'.op = "socket.torrentDone"
             => Cardinality(ScheduledDestroyCallbacks) <= 1]_vars

====
